---- MODULE Spec2Model ----
(***************************************************************************)
(* ScriptLyze backend: the analyze / compare / improve / stats handlers of *)
(* app/api/v1/analyze.py over the User, Analysis and Comparison tables of  *)
(* app/models/models.py, with the ScriptAnalyzer and ViralPatternDetector  *)
(* of app/core/analyzer.py.  Every HTTP request is one entry of req; the   *)
(* database is the committed state (users, analyses, comparisons).         *)
(* Scores are floats in the code; the model carries them as integers.      *)
(*                                                                         *)
(* Specifications:                                                         *)
(*   Spec       analyze, compare, improve and stats of two users           *)
(*   SpecText   _estimate_duration and detect_patterns called on their own *)
(*   SpecQuota  one user's analyze and delete requests within a period     *)
(*   SpecAuth   signup and login of app/api/v1/auth.py                     *)
(*   SpecStats  analyze and stats under default or overridden settings     *)
(*   SpecCrud   analyze, history, get and delete of two users              *)
(***************************************************************************)
EXTENDS Integers, Sequences, FiniteSets, TLC

(***************************************************************************)
(* Text helpers.  A script is a sequence of one-character strings.         *)
(***************************************************************************)
Range(f) == { f[i] : i \in DOMAIN f }

Min(a, b) == IF a < b THEN a ELSE b

Max(a, b) == IF a > b THEN a ELSE b

UpperToLower ==
    "A" :> "a" @@ "B" :> "b" @@ "C" :> "c" @@ "D" :> "d" @@ "E" :> "e" @@ "F" :> "f" @@
    "G" :> "g" @@ "H" :> "h" @@ "I" :> "i" @@ "J" :> "j" @@ "K" :> "k" @@ "L" :> "l" @@
    "M" :> "m" @@ "N" :> "n" @@ "O" :> "o" @@ "P" :> "p" @@ "Q" :> "q" @@ "R" :> "r" @@
    "S" :> "s" @@ "T" :> "t" @@ "U" :> "u" @@ "V" :> "v" @@ "W" :> "w" @@ "X" :> "x" @@
    "Y" :> "y" @@ "Z" :> "z"

\* (?i): ASCII case folding of one character
Lower(c) == IF c \in DOMAIN UpperToLower THEN UpperToLower[c] ELSE c

Digits == { "0", "1", "2", "3", "4", "5", "6", "7", "8", "9" }

\* the characters str.split() treats as separators
Whitespace == { " ", "\n", "\t", "\r", "\f" }

\* the literal w (given in lower case) matches s at position i, ignoring case
MatchAt(s, i, w) ==
    /\ i >= 1
    /\ i + Len(w) - 1 <= Len(s)
    /\ \A k \in 1..Len(w) : Lower(s[i + k - 1]) = w[k]

\* positions right after a match at i of one of the alternatives W
AltEnds(s, i, W) == { i + Len(w) : w \in { x \in W : MatchAt(s, i, x) } }

\* positions right after .{lo,hi} started at i ('.' matches anything but a newline)
DotEnds(s, i, lo, hi) ==
    { j \in (i + lo)..Min(i + hi, Len(s) + 1) : \A k \in i..(j - 1) : s[k] # "\n" }

\* positions right after \d+ started at i
DigitEnds(s, i) ==
    { j \in (i + 1)..(Len(s) + 1) : \A k \in i..(j - 1) : s[k] \in Digits }

\* re.search of a literal alternation: some alternative occurs somewhere
SearchAlt(s, W) == \E i \in 1..Len(s) : AltEnds(s, i, W) # {}

(***************************************************************************)
(* ViralPatternDetector.VIRAL_PATTERNS: one matcher per regular expression *)
(***************************************************************************)
\* (problem|issue|struggle).{50,500}(worse|imagine|what if).{50,500}(solution|answer|fix)
problem_agitate_solution(s) ==
    \E i \in 1..Len(s) :
      \E a \in AltEnds(s, i, { <<"p","r","o","b","l","e","m">>,
                         <<"i","s","s","u","e">>,
                         <<"s","t","r","u","g","g","l","e">> }) :
        \E b \in DotEnds(s, a, 50, 500) :
          \E c \in AltEnds(s, b, { <<"w","o","r","s","e">>,
                             <<"i","m","a","g","i","n","e">>,
                             <<"w","h","a","t"," ","i","f">> }) :
            \E d \in DotEnds(s, c, 50, 500) :
              AltEnds(s, d, { <<"s","o","l","u","t","i","o","n">>,
                     <<"a","n","s","w","e","r">>,
                     <<"f","i","x">> }) # {}

\* (you won't believe|secret|hidden|nobody tells you|shocking)
curiosity_gap(s) ==
    SearchAlt(s, { <<"y","o","u"," ","w","o","n","'","t"," ","b","e","l","i","e","v","e">>,
                <<"s","e","c","r","e","t">>,
                <<"h","i","d","d","e","n">>,
                <<"n","o","b","o","d","y"," ","t","e","l","l","s"," ","y","o","u">>,
                <<"s","h","o","c","k","i","n","g">> })

\* (\d+[kKmM]? (people|viewers|subscribers|users))
social_proof(s) ==
    \E i \in 1..Len(s) :
      \E a \in DigitEnds(s, i) :
        \E b \in {a} \cup AltEnds(s, a, { <<"k">>, <<"m">> }) :
          AltEnds(s, b, { <<" ","p","e","o","p","l","e">>,
                       <<" ","v","i","e","w","e","r","s">>,
                       <<" ","s","u","b","s","c","r","i","b","e","r","s">>,
                       <<" ","u","s","e","r","s">> }) # {}

\* (from .{5,30} to .{5,30}|before .{5,30} after|went from)
transformation(s) ==
    \E i \in 1..Len(s) :
      \/ \E a \in AltEnds(s, i, { <<"f","r","o","m"," ">> }) :
           \E b \in DotEnds(s, a, 5, 30) :
             \E c \in AltEnds(s, b, { <<" ","t","o"," ">> }) :
               DotEnds(s, c, 5, 30) # {}
      \/ \E a \in AltEnds(s, i, { <<"b","e","f","o","r","e"," ">> }) :
           \E b \in DotEnds(s, a, 5, 30) :
             AltEnds(s, b, { <<" ","a","f","t","e","r">> }) # {}
      \/ AltEnds(s, i, { <<"w","e","n","t"," ","f","r","o","m">> }) # {}

\* (stop|don't|never|why you shouldn't|the truth about|myth)
contrarian(s) ==
    SearchAlt(s, { <<"s","t","o","p">>,
                <<"d","o","n","'","t">>,
                <<"n","e","v","e","r">>,
                <<"w","h","y"," ","y","o","u"," ","s","h","o","u","l","d","n","'","t">>,
                <<"t","h","e"," ","t","r","u","t","h"," ","a","b","o","u","t">>,
                <<"m","y","t","h">> })

\* (I|my|me).{20,200}(realized|learned|discovered|failed)
personal_story(s) ==
    \E i \in 1..Len(s) :
      \E a \in AltEnds(s, i, { <<"i">>,
                         <<"m","y">>,
                         <<"m","e">> }) :
        \E b \in DotEnds(s, a, 20, 200) :
          AltEnds(s, b, { <<"r","e","a","l","i","z","e","d">>,
                     <<"l","e","a","r","n","e","d">>,
                     <<"d","i","s","c","o","v","e","r","e","d">>,
                     <<"f","a","i","l","e","d">> }) # {}

\* VIRAL_PATTERNS.items(): the keys in the order the dict literal gives them
VIRAL_PATTERNS ==
    << "problem_agitate_solution", "curiosity_gap", "social_proof",
       "transformation", "contrarian", "personal_story" >>

\* re.search(regex, script) for the regex of pattern_name
Matches(pattern_name, s) ==
    CASE pattern_name = "problem_agitate_solution" -> problem_agitate_solution(s)
      [] pattern_name = "curiosity_gap"            -> curiosity_gap(s)
      [] pattern_name = "social_proof"             -> social_proof(s)
      [] pattern_name = "transformation"           -> transformation(s)
      [] pattern_name = "contrarian"               -> contrarian(s)
      [] pattern_name = "personal_story"           -> personal_story(s)

\* pattern_name.replace("_", " ").title()
Title(pattern_name) ==
    CASE pattern_name = "problem_agitate_solution" -> "Problem Agitate Solution"
      [] pattern_name = "curiosity_gap"            -> "Curiosity Gap"
      [] pattern_name = "social_proof"             -> "Social Proof"
      [] pattern_name = "transformation"           -> "Transformation"
      [] pattern_name = "contrarian"               -> "Contrarian"
      [] pattern_name = "personal_story"           -> "Personal Story"

\* the pattern library as the detector names it in its output
PatternNames == { Title(VIRAL_PATTERNS[i]) : i \in DOMAIN VIRAL_PATTERNS }

RECURSIVE DetectFrom(_, _)
DetectFrom(s, k) ==
    IF k > Len(VIRAL_PATTERNS) THEN << >>
    ELSE IF Matches(VIRAL_PATTERNS[k], s)
         THEN << Title(VIRAL_PATTERNS[k]) >> \o DetectFrom(s, k + 1)
         ELSE DetectFrom(s, k + 1)

\* ViralPatternDetector.detect_patterns: the titles of the matching patterns, in order
detect_patterns(s) == DetectFrom(s, 1)

(***************************************************************************)
(* ScriptAnalyzer metadata                                                 *)
(***************************************************************************)
\* len(script.split()): the number of maximal runs of non-whitespace
word_count(s) ==
    Cardinality({ i \in 1..Len(s) :
                    /\ s[i] \notin Whitespace
                    /\ (i = 1 \/ s[i - 1] \in Whitespace) })

WORDS_PER_MINUTE == 150

\* variant: the minutes are cut to one decimal place, not rounded to it
duration_of_words_truncating(n) ==
    IF n < WORDS_PER_MINUTE
    THEN ToString((n * 60) \div WORDS_PER_MINUTE) \o " seconds"
    ELSE IF n < 10 * WORDS_PER_MINUTE
         THEN LET tenths == (10 * n) \div WORDS_PER_MINUTE
              IN  ToString(tenths \div 10) \o "." \o ToString(tenths % 10) \o " minutes"
         ELSE ToString(n \div WORDS_PER_MINUTE) \o " minutes"

\* ScriptAnalyzer._estimate_duration on a script of n words.  minutes = n / 150 is a
\* float in the code; n * 60 \div 150 and the rounding to tenths below agree with the
\* float results for every n (no n / 15 falls on a rounding tie).
duration_of_words(n) ==
    IF n < WORDS_PER_MINUTE
    THEN ToString((n * 60) \div WORDS_PER_MINUTE) \o " seconds"
    ELSE IF n < 10 * WORDS_PER_MINUTE
         THEN LET tenths == (20 * n + WORDS_PER_MINUTE) \div (2 * WORDS_PER_MINUTE)
              IN  ToString(tenths \div 10) \o "." \o ToString(tenths % 10) \o " minutes"
         ELSE ToString(n \div WORDS_PER_MINUTE) \o " minutes"

estimate_duration(s) == duration_of_words(word_count(s))

\* 'Today we walk through the park and look at the trees and birds around'
ScriptPlain ==
    << "T", "o", "d", "a", "y", " ", "w", "e", " ", "w", "a", "l", "k", " ", "t", "h", "r",
       "o", "u", "g", "h", " ", "t", "h", "e", " ", "p", "a", "r", "k", " ", "a", "n", "d",
       " ", "l", "o", "o", "k", " ", "a", "t", " ", "t", "h", "e", " ", "t", "r", "e", "e",
       "s", " ", "a", "n", "d", " ", "b", "i", "r", "d", "s", " ", "a", "r", "o", "u", "n",
       "d" >>

\* 'Did you know that 95% of people quit... I realized I had to change.'
ScriptQuit ==
    << "D", "i", "d", " ", "y", "o", "u", " ", "k", "n", "o", "w", " ", "t", "h", "a", "t",
       " ", "9", "5", "%", " ", "o", "f", " ", "p", "e", "o", "p", "l", "e", " ", "q", "u",
       "i", "t", ".", ".", ".", " ", "I", " ", "r", "e", "a", "l", "i", "z", "e", "d", " ",
       "I", " ", "h", "a", "d", " ", "t", "o", " ", "c", "h", "a", "n", "g", "e", "." >>

\* the script bodies a request may carry (AnalyzeScriptRequest.script, 50..50000 chars)
ScriptTexts == << ScriptPlain, ScriptQuit >>

ScriptIds == DOMAIN ScriptTexts

\* the detector and the metadata derivation on each script body
Detected == [ s \in ScriptIds |-> detect_patterns(ScriptTexts[s]) ]

WordCount == [ s \in ScriptIds |-> word_count(ScriptTexts[s]) ]

EstimatedDuration == [ s \in ScriptIds |-> estimate_duration(ScriptTexts[s]) ]

(***************************************************************************)
(* State                                                                   *)
(***************************************************************************)
VARIABLES
    users,        \* the users table: the columns of each user the handlers touch
    analyses,     \* the analyses table: the committed Analysis rows
    comparisons,  \* the comparisons table: the committed Comparison rows
    req,          \* the HTTP requests: handler position, loaded user, outcome
    settings,     \* the Settings object the process loaded when it started
    measured      \* a word count or script handed to the analyzer's static helpers

vars == << users, analyses, comparisons, req, settings, measured >>

(***************************************************************************)
(* Plans and quotas                                                        *)
(***************************************************************************)
\* User.plan: "free, pro, creator"
Plans == { "free", "pro", "creator" }

\* User.plan is an unconstrained String column: a value outside the three tiers
UnknownPlan == "enterprise"

PlanValues == Plans \cup { UnknownPlan }

RATE_LIMIT_FREE == 3

RATE_LIMIT_PRO == 50

RATE_LIMIT_CREATOR == 500

\* Settings(): the rate limits as the class declares them
DefaultSettings ==
    [ RATE_LIMIT_FREE |-> RATE_LIMIT_FREE, RATE_LIMIT_PRO |-> RATE_LIMIT_PRO,
      RATE_LIMIT_CREATOR |-> RATE_LIMIT_CREATOR ]

\* PlanCatalog.quota_for: the configured analyses per period of a tier
quota_for(tier) ==
    CASE tier = "free"    -> settings.RATE_LIMIT_FREE
      [] tier = "pro"     -> settings.RATE_LIMIT_PRO
      [] tier = "creator" -> settings.RATE_LIMIT_CREATOR

\* the explicit tier order free < pro <= creator
TIER_ORDER == << "free", "pro", "creator" >>

tier_rank(tier) == CHOOSE i \in DOMAIN TIER_ORDER : TIER_ORDER[i] = tier

\* PlanCatalog.tier_satisfies: rank of the tier >= rank of the required tier
tier_satisfies(tier, required_tier) == tier_rank(tier) >= tier_rank(required_tier)

\* core.security.check_rate_limit(user): UsagePolicy.authorize, Allowed iff under quota
check_rate_limit(user) == user.analyses_this_month < quota_for(user.plan)

\* core.security.require_plan(required)(user): UsagePolicy.authorize_feature
require_plan(required_tier, user) ==
    IF user.plan \notin Plans THEN "configuration_error"
    ELSE IF tier_satisfies(user.plan, required_tier) THEN "allowed"
    ELSE "plan_upgrade_required"

\* get_stats: plan_limits = {"free": 3, "pro": 50, "creator": 500}
PLAN_LIMIT_FREE == 3

PLAN_LIMIT_PRO == 50

PLAN_LIMIT_CREATOR == 500

\* get_stats: the default of plan_limits.get(current_user.plan, 3)
PLAN_LIMIT_DEFAULT == 3

\* get_stats: plan_limits.get(current_user.plan, 3)
plan_limits_get(plan) ==
    CASE plan = "free"    -> PLAN_LIMIT_FREE
      [] plan = "pro"     -> PLAN_LIMIT_PRO
      [] plan = "creator" -> PLAN_LIMIT_CREATOR
      [] OTHER            -> PLAN_LIMIT_DEFAULT

(***************************************************************************)
(* Bounds                                                                  *)
(***************************************************************************)
\* HTTP requests handled in one behaviour (each entry of req is one request)
NumRequests == 2

\* how far below its quota a user's period counter starts
Slack == 1

\* the largest word count handed to _estimate_duration
MaxWords == 1600

\* requests of the one user followed through a period
NumQuotaRequests == 6

Users == { "u1", "u2" }

Requests == 1..NumRequests

(***************************************************************************)
(* What the external scoring service may answer                            *)
(***************************************************************************)
\* one outcome of openai.ChatCompletion.acreate + json.loads for /analyze:
\*   kind          "error" (the call raises or times out), "invalid_json" (json.loads
\*                 raises) or "json" (a JSON object)
\*   complete      the object has every key the handler reads with result[...]
\*   has_missing   the object has the key viral_patterns_missing
\*   word_count    the object's own "word_count" key (-1: it has none)
LLMAnswer(kind, complete, score, has_missing, missing, wc) ==
    [ kind |-> kind, complete |-> complete, overall_score |-> score,
      has_missing |-> has_missing, viral_patterns_missing |-> missing,
      word_count |-> wc ]

AnalysisAnswers ==
    { LLMAnswer("error", FALSE, 0, FALSE, << >>, -1),
      LLMAnswer("invalid_json", FALSE, 0, FALSE, << >>, -1),
      LLMAnswer("json", FALSE, 8, FALSE, << >>, -1),
      LLMAnswer("json", TRUE, 8, FALSE, << >>, -1),
      LLMAnswer("json", TRUE, 11, TRUE, << "Contrarian take" >>, 999) }

\* outcomes of the comparison and improvement calls: the call raises, or returns a
\* JSON object that has or lacks the keys of the response shape
PremiumAnswers == { "error", "json_incomplete", "json_complete" }

(***************************************************************************)
(* Rows and requests                                                       *)
(***************************************************************************)
NoUser == [ plan |-> "none", analyses_this_month |-> -1, total_analyses |-> -1 ]

\* no result dict: ScriptAnalyzer.analyze_script has not returned one
NoResult == [ returned |-> FALSE, complete |-> FALSE, overall_score |-> 0,
              viral_patterns_missing |-> << >>, word_count |-> -1,
              estimated_duration |-> "" ]

\* a request that has not arrived yet.  current_user is the User row as the request's
\* session loaded it; called: the external service has been invoked; answer: what the
\* external call ended with; result: the dict ScriptAnalyzer.analyze_script returned
NoRequest ==
    [ op |-> "none", pc |-> "idle", user |-> "none", current_user |-> NoUser,
      script |-> 0, called |-> FALSE, answer |-> "", result |-> NoResult,
      status |-> 0, detail |-> "", plan_limit |-> -1, remaining |-> -1,
      analysis_id |-> 0, total |-> -1, listed |-> {} ]

\* nothing handed to the static helpers
NoMeasure ==
    [ words |-> -1, estimated_duration |-> "", script |-> 0, detected |-> << >>,
      applied |-> FALSE ]

\* the row a user has when the first request arrives: a tier with the period counter
\* Slack below the tier's quota, or an unknown plan value with fresh counters
InitialUser(p) ==
    IF p \in Plans
    THEN [ plan |-> p, analyses_this_month |-> quota_for(p) - Slack,
           total_analyses |-> quota_for(p) - Slack ]
    ELSE [ plan |-> p, analyses_this_month |-> 0, total_analyses |-> 0 ]

InitialUsers == { InitialUser(p) : p \in PlanValues }

Init ==
    /\ settings = DefaultSettings
    /\ users \in [ Users -> InitialUsers ]
    /\ analyses = {}
    /\ comparisons = {}
    /\ req = [ r \in Requests |-> NoRequest ]
    /\ measured = NoMeasure

\* request r arrives now: the requests are numbered in the order of their arrival
Arrives(r) ==
    /\ req[r].pc = "idle"
    /\ \A q \in DOMAIN req : q < r => req[q].pc # "idle"

\* get_current_user: the User row of the token's subject, loaded into the session
get_current_user(u) == users[u]

\* the external call of request r ended with answer and the handler ends with this
\* status and detail
Respond(r, answer, status, detail) ==
    [ req EXCEPT ![r].pc = "done", ![r].answer = answer, ![r].status = status,
                 ![r].detail = detail ]

(***************************************************************************)
(* POST /analyze                                                           *)
(***************************************************************************)
\* variant: the boundary of the limit test is off by one (the request at the quota passes)
RateLimited_off_by_one(user) == user.analyses_this_month > quota_for(user.plan)

\* variant: the limit test is never taken
RateLimited_never(user) == FALSE

\* analyze_script: "if not check_rate_limit(current_user): raise 429"
RateLimited(user) == ~check_rate_limit(user)

\* ScriptAnalyzer.analyze_script(script): the result dict, or NoResult when the call,
\* json.loads or the metadata assignment raises ("Failed to analyze script")
ScriptAnalyzer_analyze_script(script, answer) ==
    IF answer.kind # "json" THEN NoResult
    ELSE [ returned |-> TRUE,
           complete |-> answer.complete,
           overall_score |-> answer.overall_score,
           viral_patterns_missing |->
               IF answer.has_missing THEN answer.viral_patterns_missing ELSE << >>,
           word_count |-> WordCount[script],
           estimated_duration |-> EstimatedDuration[script] ]

\* Analysis(...): the row the handler builds from the result dict
AnalysisRow(r, user_id, script, result) ==
    [ id |-> r, user_id |-> user_id, script_text |-> script,
      overall_score |-> result.overall_score,
      viral_patterns_detected |-> Detected[script],
      viral_patterns_missing |-> result.viral_patterns_missing,
      word_count |-> result.word_count,
      estimated_duration |-> result.estimated_duration ]

\* "current_user.analyses_this_month += 1; current_user.total_analyses += 1" on the
\* User object the request loaded
RecordUsage(current_user) ==
    [ current_user EXCEPT !.analyses_this_month = @ + 1, !.total_analyses = @ + 1 ]

\* variant: the increments are applied to the stored row, not to the loaded values
CommitUsage_in_place(u, current_user) ==
    [ users EXCEPT ![u].analyses_this_month = @ + 1, ![u].total_analyses = @ + 1 ]

\* db.commit() of the two modified columns: UPDATE users SET ... WHERE id = user
CommitUsage(u, current_user) ==
    [ users EXCEPT ![u].analyses_this_month = current_user.analyses_this_month,
                   ![u].total_analyses = current_user.total_analyses ]

\* the request arrives: the dependencies load the user, the rate limit is checked,
\* and the handler suspends in the await of the external scoring call
AnalyzeStart(r, u, s) ==
    /\ Arrives(r)
    /\ LET current_user == get_current_user(u)
           arrived == [ req[r] EXCEPT !.op = "analyze", !.user = u,
                                       !.current_user = current_user, !.script = s ]
       IN  req' = [ req EXCEPT ![r] =
                IF current_user.plan \notin Plans
                THEN [ arrived EXCEPT !.pc = "done", !.status = 500,
                                      !.detail = "configuration_error" ]
                ELSE IF RateLimited(current_user)
                THEN [ arrived EXCEPT !.pc = "done", !.status = 429,
                                      !.detail = "quota_exceeded" ]
                ELSE [ arrived EXCEPT !.pc = "scoring", !.called = TRUE ] ]
    /\ UNCHANGED << users, analyses, comparisons, settings, measured >>

\* variant: a failure of the scoring step does not abort the handler
AnalysisStored_despite_failure(result, db_ok) == db_ok

\* the try block runs to db.commit() and the row is stored: the analyzer returned a
\* dict, no result[...] lookup raised KeyError and the commit succeeded; otherwise the
\* except branch runs (db.rollback(), 500)
AnalysisStored(result, db_ok) == result.returned /\ result.complete /\ db_ok

\* what the external call of /analyze ended with, as the request records it
AnswerKind(answer) ==
    IF answer.kind = "json" /\ ~answer.complete THEN "json_incomplete" ELSE answer.kind

\* the external call ends: pattern detection, the Analysis row, the counter
\* increments and the commit, or the except branch (rollback, 500)
AnalyzeFinish(r, answer, db_ok) ==
    /\ req[r].op = "analyze"
    /\ req[r].pc = "scoring"
    /\ LET u == req[r].user
           result == ScriptAnalyzer_analyze_script(req[r].script, answer)
           row == AnalysisRow(r, u, req[r].script, result)
           current_user == RecordUsage(req[r].current_user)
           got == [ req[r] EXCEPT !.result = result, !.answer = AnswerKind(answer) ]
       IN  IF AnalysisStored(result, db_ok)
           THEN /\ analyses' = analyses \cup { row }
                /\ users' = CommitUsage(u, current_user)
                /\ req' = [ req EXCEPT ![r] =
                       [ got EXCEPT !.pc = "done", !.status = 200, !.detail = "stored" ] ]
           ELSE /\ UNCHANGED << users, analyses >>
                /\ req' = [ req EXCEPT ![r] =
                       [ got EXCEPT !.pc = "done", !.status = 500,
                                    !.detail = IF ~result.returned THEN "scoring_failed"
                                               ELSE IF ~result.complete THEN "key_error"
                                               ELSE "commit_failed" ] ]
    /\ UNCHANGED << comparisons, settings, measured >>

(***************************************************************************)
(* POST /compare and POST /improve (Depends(require_plan("pro")))          *)
(***************************************************************************)
\* the tier compare_scripts and improve_script require
PREMIUM_PLAN == "pro"

\* variant: the handler depends on get_current_user alone, as the other endpoints do
PremiumGate_open(user) == "allowed"

\* Depends(require_plan("pro")): the dependency runs before the handler body
PremiumGate(user) == require_plan(PREMIUM_PLAN, user)

\* a premium request arrives: the dependency admits it or ends it
PremiumStart(r, u, op) ==
    /\ Arrives(r)
    /\ LET current_user == get_current_user(u)
           gate == PremiumGate(current_user)
           arrived == [ req[r] EXCEPT !.op = op, !.user = u,
                                       !.current_user = current_user ]
       IN  req' = [ req EXCEPT ![r] =
                IF gate = "allowed"
                THEN [ arrived EXCEPT !.pc = "scoring", !.called = TRUE ]
                ELSE [ arrived EXCEPT !.pc = "done",
                                      !.status = IF gate = "plan_upgrade_required"
                                                 THEN 403 ELSE 500,
                                      !.detail = gate ] ]
    /\ UNCHANGED << users, analyses, comparisons, settings, measured >>

CompareStart(r, u) == PremiumStart(r, u, "compare")

ImproveStart(r, u) == PremiumStart(r, u, "improve")

\* compare_scripts after the await: the Comparison row and the commit, or rollback
CompareFinish(r, answer, db_ok) ==
    /\ req[r].op = "compare"
    /\ req[r].pc = "scoring"
    /\ IF answer = "json_complete" /\ db_ok
       THEN /\ comparisons' = comparisons \cup { [ id |-> r, user_id |-> req[r].user ] }
            /\ req' = Respond(r, answer, 200, "stored")
       ELSE /\ UNCHANGED comparisons
            /\ req' = Respond(r, answer, 500,
                              IF answer = "error" THEN "scoring_failed"
                              ELSE IF answer = "json_incomplete" THEN "key_error"
                              ELSE "commit_failed")
    /\ UNCHANGED << users, analyses, settings, measured >>

\* improve_script after the await: the result is returned, nothing is stored
ImproveFinish(r, answer) ==
    /\ req[r].op = "improve"
    /\ req[r].pc = "scoring"
    /\ req' = IF answer = "json_complete" THEN Respond(r, answer, 200, "improved")
              ELSE Respond(r, answer, 500, IF answer = "error" THEN "scoring_failed"
                                           ELSE "response_invalid")
    /\ UNCHANGED << users, analyses, comparisons, settings, measured >>

(***************************************************************************)
(* GET /stats                                                              *)
(***************************************************************************)
GetStats(r, u) ==
    /\ Arrives(r)
    /\ LET current_user == get_current_user(u)
           plan_limit == plan_limits_get(current_user.plan)
       IN  req' = [ req EXCEPT ![r] =
                [ req[r] EXCEPT !.op = "stats", !.user = u, !.pc = "done",
                                !.current_user = current_user, !.status = 200,
                                !.detail = "stats", !.plan_limit = plan_limit,
                                !.remaining =
                                    Max(0, plan_limit - current_user.analyses_this_month) ] ]
    /\ UNCHANGED << users, analyses, comparisons, settings, measured >>

Next ==
    \/ \E r \in Requests, u \in Users, s \in ScriptIds : AnalyzeStart(r, u, s)
    \/ \E r \in Requests, answer \in AnalysisAnswers, db_ok \in BOOLEAN :
          AnalyzeFinish(r, answer, db_ok)
    \/ \E r \in Requests, u \in Users : CompareStart(r, u)
    \/ \E r \in Requests, answer \in PremiumAnswers, db_ok \in BOOLEAN :
          CompareFinish(r, answer, db_ok)
    \/ \E r \in Requests, u \in Users : ImproveStart(r, u)
    \/ \E r \in Requests, answer \in PremiumAnswers : ImproveFinish(r, answer)
    \/ \E r \in Requests, u \in Users : GetStats(r, u)

(***************************************************************************)
(* Properties                                                              *)
(***************************************************************************)
\* the User row request r loaded when it arrived
Loaded(r) == req[r].current_user

\* request r is an analyze request that stored its analysis and recorded usage
Recorded(r) == req[r].op = "analyze" /\ req[r].status = 200

\* the analyze requests of user u that recorded usage
RecordedBy(u) == { r \in Requests : Recorded(r) /\ req[r].user = u }

\* the configured quota of a tier, read off the three settings
ConfiguredQuota(plan) ==
    CASE plan = "free"    -> RATE_LIMIT_FREE
      [] plan = "pro"     -> RATE_LIMIT_PRO
      [] plan = "creator" -> RATE_LIMIT_CREATOR

\* C1: under any interleaving of analyze requests of one user, two requests that both
\* passed the quota check and both recorded usage never leave the user's
\* analyses_this_month above the quota of the user's tier.
C1_NeverAboveQuota ==
    \A r1, r2 \in Requests :
      ( /\ r1 # r2
        /\ Recorded(r1)
        /\ Recorded(r2)
        /\ req[r1].user = req[r2].user )
      => users[req[r1].user].analyses_this_month
            <= ConfiguredQuota(users[req[r1].user].plan)

\* C1 witness: two requests of one user both passed the check on the last free slot
\* (both loaded quota - 1) and both recorded usage
C1_Witness ==
    \E r1, r2 \in Requests :
      /\ r1 # r2
      /\ Recorded(r1)
      /\ Recorded(r2)
      /\ req[r1].user = req[r2].user
      /\ Loaded(r1).analyses_this_month = ConfiguredQuota(Loaded(r1).plan) - 1
      /\ Loaded(r2).analyses_this_month = ConfiguredQuota(Loaded(r2).plan) - 1

\* C2: an analyze request is allowed iff the analyses_this_month the user has is
\* strictly below the quota of the user's tier (3 / 50 / 500): below the quota the
\* request goes on to the scoring call, at or above it the request ends 429
\* quota-exceeded, for each of the three tiers.
C2_AllowedIffUnderQuota ==
    \A r \in Requests :
      (req[r].op = "analyze" /\ Loaded(r).plan \in Plans) =>
        IF Loaded(r).analyses_this_month < ConfiguredQuota(Loaded(r).plan)
        THEN req[r].called /\ req[r].status # 429
        ELSE ~req[r].called /\ req[r].status = 429 /\ req[r].detail = "quota_exceeded"

\* C2 witness: one request was allowed at quota - 1 and another denied at quota
C2_Witness ==
    \E r1, r2 \in Requests :
      /\ req[r1].op = "analyze"
      /\ req[r2].op = "analyze"
      /\ Loaded(r1).plan = Loaded(r2).plan
      /\ Loaded(r1).plan \in Plans
      /\ Loaded(r1).analyses_this_month = ConfiguredQuota(Loaded(r1).plan) - 1
      /\ req[r1].called
      /\ Loaded(r2).analyses_this_month = ConfiguredQuota(Loaded(r2).plan)
      /\ req[r2].status = 429

\* C3: in every analyze request the quota check comes before the external scoring
\* call (a request that has invoked the service was under quota when it was checked),
\* and a request denied for quota never invokes the service, never has an Analysis
\* row, and its denial leaves the users and analyses tables as they were.
C3_CheckBeforeScoring ==
    [][ \A r \in Requests :
          /\ (req'[r].op = "analyze" /\ req'[r].called) =>
                req'[r].current_user.analyses_this_month
                   < ConfiguredQuota(req'[r].current_user.plan)
          /\ (req'[r].op = "analyze" /\ req'[r].status = 429) =>
                /\ ~req'[r].called
                /\ \A row \in analyses' : row.id # r
                /\ (req[r].status # 429 => users' = users /\ analyses' = analyses)
      ]_vars

\* C3 witness: a request was denied for quota at a counter equal to the quota
C3_Witness ==
    \E r \in Requests :
      /\ req[r].op = "analyze"
      /\ req[r].status = 429
      /\ ~req[r].called
      /\ Loaded(r).analyses_this_month = ConfiguredQuota(Loaded(r).plan)

\* C4: when the external scoring call of an analyze request fails (it raises, times
\* out or its answer is not a JSON object with the expected keys) the request ends
\* in error and records nothing: its step leaves both counters of every user and
\* the analyses table unchanged, and no Analysis row of the request exists.
C4_FailedScoringRecordsNothing ==
    [][ \A r \in Requests :
          ( /\ req[r].op = "analyze"
            /\ req[r].pc = "scoring"
            /\ req'[r].pc = "done"
            /\ req'[r].answer # "json" )
          => /\ req'[r].status = 500
             /\ users' = users
             /\ analyses' = analyses
             /\ \A row \in analyses' : row.id # r
      ]_vars

\* C4 witness: a request whose scoring call raised has ended, and the user's
\* counters are the ones the request loaded when it arrived
C4_Witness ==
    \E r \in Requests :
      /\ req[r].op = "analyze"
      /\ req[r].pc = "done"
      /\ req[r].answer = "error"
      /\ req[r].status = 500
      /\ users[req[r].user] = Loaded(r)
      /\ \A row \in analyses : row.id # r

\* C5: each successful analysis adds exactly 1 to the user's analyses_this_month and
\* exactly 1 to total_analyses, whatever other requests interleave with it: after k
\* successful analyses of a user both counters are k above their starting values
\* (and a user without a successful analysis keeps the starting values).
C5_EachSuccessCountsOnce ==
    \A u \in Users :
      LET start == InitialUser(users[u].plan)
          k == Cardinality(RecordedBy(u))
      IN  /\ users[u].analyses_this_month = start.analyses_this_month + k
          /\ users[u].total_analyses = start.total_analyses + k

\* C6: compare and improve require at least tier pro under the order
\* free < pro <= creator: a free user's request ends 403 plan-upgrade-required, a pro
\* or creator user's request goes on to the external call; and a request that was
\* not admitted has made no external call and has no Comparison row.
C6_PremiumNeedsPro ==
    \A r \in Requests :
      req[r].op \in { "compare", "improve" } =>
        /\ Loaded(r).plan = "free" =>
              /\ req[r].status = 403
              /\ req[r].detail = "plan_upgrade_required"
        /\ Loaded(r).plan \in { "pro", "creator" } => req[r].called
        /\ req[r].status \in { 403 } =>
              /\ ~req[r].called
              /\ \A c \in comparisons : c.id # r

\* C6 witness: a free user's compare was denied, and a creator user's premium request
\* was admitted and has made its external call
C6_Witness ==
    \E r1, r2 \in Requests :
      /\ req[r1].op = "compare"
      /\ Loaded(r1).plan = "free"
      /\ req[r1].status = 403
      /\ req[r2].op \in { "compare", "improve" }
      /\ Loaded(r2).plan = "creator"
      /\ req[r2].called

\* C7: a plan value outside {free, pro, creator} is never mapped to a default quota:
\* every operation that looks up the quota of such a user (analyze, stats) ends in a
\* configuration error and returns no limit.
C7_UnknownTierIsAnError ==
    \A r \in Requests :
      ( /\ req[r].op \in { "analyze", "stats" }
        /\ req[r].pc = "done"
        /\ Loaded(r).plan \notin Plans )
      => /\ req[r].status = 500
         /\ req[r].detail = "configuration_error"
         /\ req[r].plan_limit = -1

\* C8: in every stored analysis the detected and the missing patterns partition the
\* pattern library: detected is what the detector finds in the script, the union of
\* the two is the full set of pattern names, and they are disjoint.
C8_DetectedMissingPartition ==
    \A row \in analyses :
      LET detected == Range(row.viral_patterns_detected)
          missing == Range(row.viral_patterns_missing)
      IN  /\ detected = Range(detect_patterns(ScriptTexts[row.script_text]))
          /\ detected \cup missing = PatternNames
          /\ detected \cap missing = {}

\* C9: the answer of the scoring service is validated before it is trusted: a request
\* whose answer lacks required fields ends in error, and every stored analysis has an
\* overall_score within [0, 10].
C9_ScoreValidated ==
    /\ \A r \in Requests :
         (req[r].op = "analyze" /\ req[r].answer = "json_incomplete") =>
            req[r].status = 500
    /\ \A row \in analyses : row.overall_score >= 0 /\ row.overall_score <= 10

\* C10: word_count and estimated_duration are derived from the script text alone,
\* whether the external scoring call succeeds or fails: once the scoring step of an
\* analyze request has ended, either way, the request holds the word count and the
\* estimated duration of its script.
C10_MetadataWhateverTheCallDoes ==
    \A r \in Requests :
      (req[r].op = "analyze" /\ req[r].called /\ req[r].pc = "done") =>
        /\ req[r].result.word_count = word_count(ScriptTexts[req[r].script])
        /\ req[r].result.estimated_duration = estimate_duration(ScriptTexts[req[r].script])

\* C15: usage is recorded exactly when the analysis is durably stored: the Analysis row
\* and the two counter increments commit together or not at all; a step that stores a
\* row of a user raises each of the user's two counters by one, and a step that stores
\* none (a failure of scoring or persistence included) leaves the user's row unchanged.
C15_UsageRecordedWithTheRow ==
    [][ \A u \in Users :
          IF \E a \in analyses' \ analyses : a.user_id = u
          THEN /\ users'[u].analyses_this_month = users[u].analyses_this_month + 1
               /\ users'[u].total_analyses = users[u].total_analyses + 1
          ELSE users'[u] = users[u] ]_vars

Spec == Init /\ [][Next]_vars

(***************************************************************************)
(* The analyzer's static helpers, called on their own                      *)
(***************************************************************************)
\* the script of the two-pattern scenario, as a request body
ScriptQuitId == CHOOSE s \in ScriptIds : ScriptTexts[s] = ScriptQuit

\* what a caller hands to a helper: a script of n words to _estimate_duration, or a
\* script body to detect_patterns
MeasureInputs ==
    { [ NoMeasure EXCEPT !.words = n ] : n \in 0..MaxWords }
        \cup { [ NoMeasure EXCEPT !.script = s ] : s \in ScriptIds }

InitText ==
    /\ settings = DefaultSettings
    /\ users = << >>
    /\ analyses = {}
    /\ comparisons = {}
    /\ req = << >>
    /\ measured \in MeasureInputs

\* ScriptAnalyzer._estimate_duration on a script of measured.words words
EstimateDuration ==
    /\ measured.words >= 0
    /\ ~measured.applied
    /\ measured' = [ measured EXCEPT !.applied = TRUE,
                         !.estimated_duration = duration_of_words(measured.words) ]
    /\ UNCHANGED << users, analyses, comparisons, req, settings >>

\* ViralPatternDetector.detect_patterns on the script body measured.script
DetectPatterns ==
    /\ measured.script \in ScriptIds
    /\ ~measured.applied
    /\ measured' = [ measured EXCEPT !.applied = TRUE,
                         !.detected = detect_patterns(ScriptTexts[measured.script]) ]
    /\ UNCHANGED << users, analyses, comparisons, req, settings >>

NextText ==
    \/ EstimateDuration
    \/ DetectPatterns

SpecText == InitText /\ [][NextText]_vars

\* C11: for every word count n >= 0 the estimated duration at 150 words per minute is
\* "<floor(n*60/150)> seconds" when n < 150, "<n/150 to one decimal place> minutes"
\* when 150 <= n < 1500 and "<floor(n/150)> minutes" when n >= 1500; 30 words give
\* "12 seconds" and 150 words give "1.0 minutes".
C11_DurationAtReadingRate ==
    (measured.applied /\ measured.words >= 0) =>
      LET n == measured.words
          d == measured.estimated_duration
      IN  /\ n < 150 =>
                \E s \in 0..59 :
                    /\ s * 150 <= n * 60
                    /\ n * 60 < (s + 1) * 150
                    /\ d = ToString(s) \o " seconds"
          /\ (150 <= n /\ n < 1500) =>
                \E t \in 10..100 :
                    /\ 2 * (10 * n - 150 * t) <= 150
                    /\ 2 * (150 * t - 10 * n) <= 150
                    /\ d = ToString(t \div 10) \o "." \o ToString(t % 10) \o " minutes"
          /\ n >= 1500 =>
                \E m \in 10..n :
                    /\ m * 150 <= n
                    /\ n < (m + 1) * 150
                    /\ d = ToString(m) \o " minutes"
          /\ n = 30 => d = "12 seconds"
          /\ n = 150 => d = "1.0 minutes"

\* C11 witness: the estimate of a 150-word script has been computed
C11_Witness ==
    /\ measured.applied
    /\ measured.words = 150
    /\ measured.estimated_duration = "1.0 minutes"

\* C13: for the script "Did you know that 95% of people quit... I realized I had to
\* change." the detector reports both the social-proof pattern and the personal-story
\* pattern.
C13_QuitScriptHasBothPatterns ==
    (measured.applied /\ measured.script = ScriptQuitId) =>
        /\ Title("social_proof") \in Range(measured.detected)
        /\ Title("personal_story") \in Range(measured.detected)

(***************************************************************************)
(* GET /history, GET /analysis/{analysis_id}, DELETE /analysis/{analysis_id} *)
(***************************************************************************)
\* db.query(Analysis).filter(Analysis.user_id == current_user.id)
AnalysesOf(u) == { a \in analyses : a.user_id = u }

\* variant: the row is looked up by its id alone
OwnAnalysis_of_any_owner(analysis_id, u) == { a \in analyses : a.id = analysis_id }

\* db.query(Analysis).filter(Analysis.id == analysis_id,
\*                           Analysis.user_id == current_user.id)
OwnAnalysis(analysis_id, u) == { a \in AnalysesOf(u) : a.id = analysis_id }

\* get_history with the default limit and offset: the count of the user's rows and the
\* first page, which holds every row the model can store (created_at order left out)
GetHistory(r, u) ==
    /\ Arrives(r)
    /\ req' = [ req EXCEPT ![r] =
             [ req[r] EXCEPT !.op = "history", !.user = u, !.pc = "done",
                             !.current_user = get_current_user(u), !.status = 200,
                             !.detail = "history",
                             !.total = Cardinality(AnalysesOf(u)),
                             !.listed = AnalysesOf(u) ] ]
    /\ UNCHANGED << users, analyses, comparisons, settings, measured >>

\* get_analysis: the row of that id and owner, or 404
GetAnalysis(r, u, analysis_id) ==
    /\ Arrives(r)
    /\ LET analysis == OwnAnalysis(analysis_id, u)
           arrived == [ req[r] EXCEPT !.op = "get", !.user = u, !.pc = "done",
                                       !.current_user = get_current_user(u),
                                       !.analysis_id = analysis_id ]
       IN  req' = [ req EXCEPT ![r] =
                IF analysis = {}
                THEN [ arrived EXCEPT !.status = 404, !.detail = "Analysis not found" ]
                ELSE [ arrived EXCEPT !.status = 200, !.detail = "analysis",
                                      !.listed = analysis ] ]
    /\ UNCHANGED << users, analyses, comparisons, settings, measured >>

\* variant: a deletion gives the analysis back to the period's quota
DeleteAnalysis_refunding(r, u, analysis_id) ==
    /\ Arrives(r)
    /\ LET analysis == OwnAnalysis(analysis_id, u)
           arrived == [ req[r] EXCEPT !.op = "delete", !.user = u, !.pc = "done",
                                       !.current_user = get_current_user(u),
                                       !.analysis_id = analysis_id ]
       IN  IF analysis = {}
           THEN /\ req' = [ req EXCEPT ![r] =
                       [ arrived EXCEPT !.status = 404, !.detail = "Analysis not found" ] ]
                /\ UNCHANGED << users, analyses >>
           ELSE /\ analyses' = analyses \ analysis
                /\ users' = [ users EXCEPT ![u].analyses_this_month = @ - 1 ]
                /\ req' = [ req EXCEPT ![r] =
                       [ arrived EXCEPT !.status = 200,
                                        !.detail = "Analysis deleted successfully" ] ]
    /\ UNCHANGED << comparisons, settings, measured >>

\* delete_analysis: 404, or db.delete(analysis) and db.commit()
DeleteAnalysis(r, u, analysis_id) ==
    /\ Arrives(r)
    /\ LET analysis == OwnAnalysis(analysis_id, u)
           arrived == [ req[r] EXCEPT !.op = "delete", !.user = u, !.pc = "done",
                                       !.current_user = get_current_user(u),
                                       !.analysis_id = analysis_id ]
       IN  IF analysis = {}
           THEN /\ req' = [ req EXCEPT ![r] =
                       [ arrived EXCEPT !.status = 404, !.detail = "Analysis not found" ] ]
                /\ UNCHANGED analyses
           ELSE /\ analyses' = analyses \ analysis
                /\ req' = [ req EXCEPT ![r] =
                       [ arrived EXCEPT !.status = 200,
                                        !.detail = "Analysis deleted successfully" ] ]
    /\ UNCHANGED << users, comparisons, settings, measured >>

(***************************************************************************)
(* One user's requests within a period                                     *)
(***************************************************************************)
\* the user the run follows
QuotaUser == CHOOSE u \in Users : TRUE

\* the row signup creates: plan "free", both counters at their default 0
SignedUpUser == [ plan |-> "free", analyses_this_month |-> 0, total_analyses |-> 0 ]

QuotaRequests == 1..NumQuotaRequests

\* the scoring call raises, or returns a complete object
QuotaAnswers ==
    { answer \in AnalysisAnswers :
        answer.kind = "error" \/ (answer.complete /\ ~answer.has_missing) }

InitQuota ==
    /\ settings = DefaultSettings
    /\ users = [ u \in Users |-> SignedUpUser ]
    /\ analyses = {}
    /\ comparisons = {}
    /\ req = [ r \in QuotaRequests |-> NoRequest ]
    /\ measured = NoMeasure

NextQuota ==
    \/ \E r \in QuotaRequests : AnalyzeStart(r, QuotaUser, ScriptQuitId)
    \/ \E r \in QuotaRequests, answer \in QuotaAnswers : AnalyzeFinish(r, answer, TRUE)
    \/ \E r \in QuotaRequests, analysis_id \in QuotaRequests :
          DeleteAnalysis(r, QuotaUser, analysis_id)

SpecQuota == InitQuota /\ [][NextQuota]_vars

\* C12: over-quota is terminal within a period: once an analyze request of a user has
\* been denied for quota, every later analyze request of that user is denied too,
\* whatever other operations come in between, as long as the period and the user's
\* tier do not change.  (Requests are numbered in the order of their arrival, and a
\* denied request is denied when it arrives.)
C12_OverQuotaIsTerminal ==
    \A r1, r2 \in DOMAIN req :
      ( /\ r1 < r2
        /\ req[r1].op = "analyze"
        /\ req[r2].op = "analyze"
        /\ req[r1].user = req[r2].user
        /\ req[r1].status = 429 )
      => req[r2].status = 429

(***************************************************************************)
(* POST /signup and POST /login                                            *)
(***************************************************************************)
\* UserCreate.email / UserLogin.email
Emails == { "ann@example.com", "bob@example.com" }

\* UserCreate.password (min_length 8) / UserLogin.password
Passwords == { "password-one", "password-two" }

\* UserCreate.username: "" stands for a signup without username
Usernames == { "", "neo" }

\* core.security.get_password_hash: a hash that only its own password verifies
get_password_hash(password) == << "hash", password >>

\* core.security.verify_password(plain_password, hashed_password)
verify_password(plain_password, hashed_password) ==
    hashed_password = get_password_hash(plain_password)

\* core.security.create_access_token(data={"sub": user.id})
create_access_token(sub) == [ sub |-> sub ]

\* no access token in the response
NoToken == [ sub |-> 0 ]

\* an auth request that has not arrived yet
NoAuthRequest ==
    [ op |-> "none", pc |-> "idle", email |-> "", password |-> "", username |-> "",
      status |-> 0, detail |-> "", access_token |-> NoToken ]

\* User(email, username, hashed_password, plan="free") with the column defaults
NewUser(email, username, hashed_password) ==
    [ email |-> email, username |-> username, hashed_password |-> hashed_password,
      plan |-> "free", analyses_this_month |-> 0, total_analyses |-> 0,
      last_login |-> 0, is_active |-> TRUE ]

\* db.query(User).filter(User.email == email)
UsersByEmail(email) == { id \in DOMAIN users : users[id].email = email }

\* db.query(User).filter(User.username == username)
UsersByUsername(username) == { id \in DOMAIN users : users[id].username = username }

InitAuth ==
    /\ settings = DefaultSettings
    /\ users = << >>
    /\ analyses = {}
    /\ comparisons = {}
    /\ req = [ r \in Requests |-> NoAuthRequest ]
    /\ measured = NoMeasure

\* signup: request r registers a user, whose id is the request's number
Signup(r, email, password, username) ==
    /\ Arrives(r)
    /\ LET arrived == [ req[r] EXCEPT !.op = "signup", !.pc = "done", !.email = email,
                                       !.password = password, !.username = username ]
       IN  IF UsersByEmail(email) # {}
           THEN /\ req' = [ req EXCEPT ![r] =
                       [ arrived EXCEPT !.status = 400,
                                        !.detail = "Email already registered" ] ]
                /\ UNCHANGED users
           ELSE IF username # "" /\ UsersByUsername(username) # {}
           THEN /\ req' = [ req EXCEPT ![r] =
                       [ arrived EXCEPT !.status = 400,
                                        !.detail = "Username already taken" ] ]
                /\ UNCHANGED users
           ELSE /\ users' = users @@
                       (r :> NewUser(email, username, get_password_hash(password)))
                /\ req' = [ req EXCEPT ![r] =
                       [ arrived EXCEPT !.status = 200, !.detail = "bearer",
                                        !.access_token = create_access_token(r) ] ]
    /\ UNCHANGED << analyses, comparisons, settings, measured >>

\* variant: the password of the credentials is not verified
login_check_any_password(email, password) ==
    IF UsersByEmail(email) = {} THEN 401
    ELSE LET user == users[CHOOSE id \in UsersByEmail(email) : TRUE]
         IN  IF ~user.is_active THEN 403 ELSE 200

\* login up to the update of last_login: the status the three checks end with
login_check(email, password) ==
    IF UsersByEmail(email) = {} THEN 401
    ELSE LET user == users[CHOOSE id \in UsersByEmail(email) : TRUE]
         IN  IF ~verify_password(password, user.hashed_password) THEN 401
             ELSE IF ~user.is_active THEN 403
             ELSE 200

\* login: request r authenticates; datetime.utcnow() is the request's number
Login(r, email, password) ==
    /\ Arrives(r)
    /\ LET arrived == [ req[r] EXCEPT !.op = "login", !.pc = "done", !.email = email,
                                       !.password = password ]
           checked == login_check(email, password)
       IN  IF checked = 200
           THEN LET id == CHOOSE id \in UsersByEmail(email) : TRUE
                IN  /\ users' = [ users EXCEPT ![id].last_login = r ]
                    /\ req' = [ req EXCEPT ![r] =
                           [ arrived EXCEPT !.status = 200, !.detail = "bearer",
                                            !.access_token = create_access_token(id) ] ]
           ELSE /\ req' = [ req EXCEPT ![r] =
                       [ arrived EXCEPT !.status = checked,
                                        !.detail = IF checked = 401
                                                   THEN "Invalid email or password"
                                                   ELSE "Account is inactive" ] ]
                /\ UNCHANGED users
    /\ UNCHANGED << analyses, comparisons, settings, measured >>

NextAuth ==
    \/ \E r \in Requests, email \in Emails, password \in Passwords,
          username \in Usernames : Signup(r, email, password, username)
    \/ \E r \in Requests, email \in Emails, password \in Passwords :
          Login(r, email, password)

SpecAuth == InitAuth /\ [][NextAuth]_vars

\* a signup with this email and password has succeeded
SignedUp(email, password) ==
    \E q \in DOMAIN req :
        /\ req[q].op = "signup"
        /\ req[q].status = 200
        /\ req[q].email = email
        /\ req[q].password = password

\* C14: after a signup with an email and password, login with that email and password
\* returns an access token (of the user who signed up with that email), while login
\* with an unknown email or a wrong password returns 401, issues no token and leaves
\* every user's last_login unchanged.
C14_LoginAfterSignup ==
    [][ \A r \in DOMAIN req :
          (req[r].pc = "idle" /\ req'[r].op = "login") =>
            IF SignedUp(req'[r].email, req'[r].password)
            THEN /\ req'[r].status = 200
                 /\ req'[r].access_token # NoToken
                 /\ users'[req'[r].access_token.sub].email = req'[r].email
            ELSE /\ req'[r].status = 401
                 /\ req'[r].access_token = NoToken
                 /\ users' = users ]_vars

\* C14 witness: a user signed up and then logged in with the same email and password,
\* and the login returned a token of that user and set last_login
C14_Witness ==
    \E q, r \in DOMAIN req :
        /\ req[q].op = "signup"
        /\ req[q].status = 200
        /\ req[r].op = "login"
        /\ req[r].email = req[q].email
        /\ req[r].password = req[q].password
        /\ req[r].status = 200
        /\ req[r].access_token = create_access_token(q)
        /\ users[q].last_login = r

(***************************************************************************)
(* GET /stats next to POST /analyze, under the settings of the deployment  *)
(***************************************************************************)
\* Settings() of a deployment whose environment sets RATE_LIMIT_FREE above its default
OverriddenSettings == [ DefaultSettings EXCEPT !.RATE_LIMIT_FREE = @ + 2 ]

InitStats ==
    /\ settings \in { DefaultSettings, OverriddenSettings }
    /\ users \in [ Users -> InitialUsers ]
    /\ analyses = {}
    /\ comparisons = {}
    /\ req = [ r \in Requests |-> NoRequest ]
    /\ measured = NoMeasure

NextStats ==
    \/ \E r \in Requests, u \in Users, s \in ScriptIds : AnalyzeStart(r, u, s)
    \/ \E r \in Requests, answer \in AnalysisAnswers, db_ok \in BOOLEAN :
          AnalyzeFinish(r, answer, db_ok)
    \/ \E r \in Requests, u \in Users : GetStats(r, u)

SpecStats == InitStats /\ [][NextStats]_vars

\* C16: the stats endpoint agrees with the analyze gate: for every user of a tier,
\* plan_limit equals the quota the gate enforces for the tier (also when the quota
\* configuration is overridden), remaining_analyses = max(0, plan_limit -
\* analyses_this_month), and remaining_analyses is 0 exactly where an analyze request
\* of the user would be denied for quota.
C16_StatsAgreesWithGate ==
    \A r \in DOMAIN req :
      (req[r].op = "stats" /\ Loaded(r).plan \in Plans) =>
        /\ req[r].plan_limit = quota_for(Loaded(r).plan)
        /\ req[r].remaining =
               Max(0, req[r].plan_limit - Loaded(r).analyses_this_month)
        /\ (req[r].remaining = 0) <=> RateLimited(Loaded(r))

(***************************************************************************)
(* The analyses of two users: analyze, history, get and delete             *)
(***************************************************************************)
\* the id of the analysis a user stored before the first request arrives
StoredId == CHOOSE f \in [ Users -> (0 - Cardinality(Users))..(0 - 1) ] :
                \A u1, u2 \in Users : u1 # u2 => f[u1] # f[u2]

\* the Analysis row of such an earlier analysis: a complete result for the plain script
StoredAnalysis(u) ==
    AnalysisRow(StoredId[u], u, 1,
                ScriptAnalyzer_analyze_script(1, LLMAnswer("json", TRUE, 8, FALSE, << >>, -1)))

\* the ids a GET or DELETE may name: stored earlier, given to a request's row, or in
\* any case the id of no row (a request that stores nothing)
AnalysisIds == Range(StoredId) \cup Requests

\* each user has signed up, and has stored one analysis since or none
InitCrud ==
    /\ settings = DefaultSettings
    /\ \E owners \in SUBSET Users :
          /\ users = [ u \in Users |->
                         IF u \in owners THEN RecordUsage(SignedUpUser) ELSE SignedUpUser ]
          /\ analyses = { StoredAnalysis(u) : u \in owners }
    /\ comparisons = {}
    /\ req = [ r \in Requests |-> NoRequest ]
    /\ measured = NoMeasure

NextCrud ==
    \/ \E r \in Requests, u \in Users, s \in ScriptIds : AnalyzeStart(r, u, s)
    \/ \E r \in Requests, answer \in AnalysisAnswers, db_ok \in BOOLEAN :
          AnalyzeFinish(r, answer, db_ok)
    \/ \E r \in Requests, u \in Users : GetHistory(r, u)
    \/ \E r \in Requests, u \in Users, analysis_id \in AnalysisIds :
          GetAnalysis(r, u, analysis_id)
    \/ \E r \in Requests, u \in Users, analysis_id \in AnalysisIds :
          DeleteAnalysis(r, u, analysis_id)

SpecCrud == InitCrud /\ [][NextCrud]_vars

\* request r arrives in this step as one of the given operations
Handles(r, ops) == req[r].pc = "idle" /\ req'[r].op \in ops

\* C17: analyses are isolated per owner: get_analysis and delete_analysis act only on
\* an analysis whose user_id is the requesting user; for an id owned by another user
\* (or unknown) they return 404 and leave every stored analysis unchanged; history
\* lists and counts only (and all of) the requester's own analyses.
C17_OwnerIsolation ==
    [][ \A r \in DOMAIN req :
          Handles(r, { "get", "delete", "history" }) =>
            LET u == req'[r].user
                id == req'[r].analysis_id
                own == { a \in analyses : a.user_id = u }
            IN  /\ (req'[r].op # "history" /\ id \notin { a.id : a \in own }) =>
                      /\ req'[r].status = 404
                      /\ req'[r].listed = {}
                      /\ analyses' = analyses
                /\ req'[r].op = "get" =>
                      /\ analyses' = analyses
                      /\ \A a \in req'[r].listed : a \in own /\ a.id = id
                /\ req'[r].op = "delete" =>
                      \A a \in analyses \ analyses' : a \in own /\ a.id = id
                /\ req'[r].op = "history" =>
                      /\ analyses' = analyses
                      /\ req'[r].listed = own
                      /\ req'[r].total = Cardinality(own) ]_vars

\* C17 witness: a user asked to delete, and a user asked to get, an analysis that is
\* stored and owned by the other user, and got 404
C17_Witness ==
    \E r1, r2 \in DOMAIN req :
        /\ req[r1].op = "delete"
        /\ req[r2].op = "get"
        /\ \A r \in { r1, r2 } :
              /\ req[r].status = 404
              /\ \E a \in analyses : a.id = req[r].analysis_id /\ a.user_id # req[r].user

\* C18: deleting an analysis removes only that Analysis row and leaves the owner's (and
\* everyone's) analyses_this_month and total_analyses unchanged: a deletion never gives
\* quota back.
C18_DeleteKeepsCounters ==
    [][ \A r \in DOMAIN req :
          Handles(r, { "delete" }) =>
            /\ users' = users
            /\ comparisons' = comparisons
            /\ IF req'[r].status = 200
               THEN \E a \in analyses :
                       /\ a.id = req'[r].analysis_id
                       /\ a.user_id = req'[r].user
                       /\ analyses' = analyses \ { a }
               ELSE analyses' = analyses ]_vars

\* C18 witness: after a deletion a user's history counts fewer analyses than the
\* user's total_analyses
C18_Witness ==
    \E r1, r2 \in DOMAIN req :
        /\ r1 < r2
        /\ req[r1].op = "delete"
        /\ req[r1].status = 200
        /\ req[r2].op = "history"
        /\ req[r2].user = req[r1].user
        /\ req[r2].total < users[req[r2].user].total_analyses
        /\ Loaded(r1).total_analyses = users[req[r1].user].total_analyses

====
